---- MODULE Spec2Model ----
(***************************************************************************)
(* A model of the HTMX router of src/htmx.ts (createHTMXRouter): the route *)
(* registry, the routes registered with the underlying Fastify server, the *)
(* attribute sets htmx() returns, the generated endpoints' request         *)
(* handling and router.start().                                            *)
(*                                                                         *)
(* A JavaScript object is a TLA+ function whose domain is the set of the   *)
(* object's own keys: an optional field that is not given is not in the    *)
(* domain, as in the source (opts.target ?? "body").                       *)
(*                                                                         *)
(* src/unnamed/part_000 holds an example application and an earlier copy   *)
(* of the router with the same registry, route handler and start(); the    *)
(* model follows src/htmx.ts.                                              *)
(*                                                                         *)
(* Fastify is not part of the repository: app.route is taken to throw once *)
(* the instance listens and for a duplicate method and url, app.listen to  *)
(* resolve or reject. User handlers return an element, throw or reject;    *)
(* they do not send a reply through res themselves.                        *)
(***************************************************************************)
EXTENDS Integers, Sequences, FiniteSets, TLC

VARIABLES
    routeRegistry,  \* Map<string, RouteHandler>: generated path -> handler
    routes,         \* the routes registered with the Fastify instance (app)
    server,         \* the Fastify instance: "idle", "starting", "listening", "failed"
    startPromise,   \* the promise of router.start(): "none", "pending", "fulfilled", "rejected"
    exitCode,       \* -1 while the process runs, else the code given to process.exit
    routeCalls,     \* generated path -> number of app.route calls htmx() made for it
    firstCall,      \* generated path -> handler and vals of the first htmx() call that produced it
    issued,         \* of every attribute set returned: the handler passed, the trigger
                    \* attribute and its value
    calls,          \* number of htmx() calls so far
    out             \* the outcome of the latest operation: what it returned or sent,
                    \* and the number of error-log lines it wrote (logged)

vars == <<routeRegistry, routes, server, startPromise, exitCode,
          routeCalls, firstCall, issued, calls, out>>

----------------------------------------------------------------------------
(* Bounds of the model *)

MaxCalls == 2       \* htmx() calls in one behaviour

----------------------------------------------------------------------------
(* Objects *)

Empty == << >>      \* the object {}

Has(o, k) == k \in DOMAIN o

\* { ...a, ...b }: b's keys after a's, the later value wins
Spread(a, b) ==
    [k \in (DOMAIN a) \cup (DOMAIN b) |-> IF k \in DOMAIN b THEN b[k] ELSE a[k]]

\* x ?? d for an optional field k of o
OrElse(o, k, d) == IF Has(o, k) THEN o[k] ELSE d

\* an object with the one key k when S = {v}, and {} when S = {}
Field(k, S) == [x \in {k : v \in S} |-> CHOOSE v \in S : TRUE]

----------------------------------------------------------------------------
(* config: createHTMXRouter(config) *)

prefix == "/api"        \* config.prefix ?? "/api"
mount == "/"            \* config.rootPath ?? "/"

----------------------------------------------------------------------------
(* Handler functions: a source text and the closure it was created in.     *)
(* fn.toString() is the source text alone.                                 *)

Handlers ==
    {[src |-> "fnA", env |-> "c1"], [src |-> "fnA", env |-> "c2"],
     [src |-> "fnB", env |-> "c1"], [src |-> "fnC", env |-> "c1"]}

FnToString(fn) == fn.src

\* sha1(text).digest("hex").slice(0, 10): 40 bits of the digest, so many texts
\* share one id; here fnA and fnC do
Sha1Hex10(text) ==
    CASE text = "fnA" -> "d1"
      [] text = "fnB" -> "d2"
      [] text = "fnC" -> "d1"

hashFn(fn) == Sha1Hex10(FnToString(fn))

PathOf(fn) == prefix \o "/" \o hashFn(fn)

----------------------------------------------------------------------------
(* HTTP methods: String.prototype.toUpperCase / toLowerCase on their names *)

toUpperCase(m) ==
    CASE m \in {"GET", "get"} -> "GET"
      [] m \in {"POST", "post"} -> "POST"
      [] m \in {"PUT", "put"} -> "PUT"
      [] m \in {"DELETE", "delete"} -> "DELETE"
      [] m \in {"PATCH", "patch"} -> "PATCH"

toLowerCase(m) ==
    CASE m \in {"GET", "get"} -> "get"
      [] m \in {"POST", "post"} -> "post"
      [] m \in {"PUT", "put"} -> "put"
      [] m \in {"DELETE", "delete"} -> "delete"
      [] m \in {"PATCH", "patch"} -> "patch"

\* opts.method?.toUpperCase() ?? "POST"
MethodOf(opts) == IF Has(opts, "method") THEN toUpperCase(opts.method) ELSE "POST"

\* the lower-casing left out
HxAttr_NoLowerCase(method) == "hx-" \o method

\* "hx-" + method.toLowerCase()
HxAttr(method) == "hx-" \o toLowerCase(method)

----------------------------------------------------------------------------
(* on* listeners: a listener is a function, given by its form, parameters   *)
(* and body, or undefined                                                  *)

\* handler.toString()
ListenerToString(l) ==
    CASE l.form = "function" -> "function (" \o l.params \o ") { " \o l.body \o " }"
      [] l.form = "arrow" -> "(" \o l.params \o ") => { " \o l.body \o " }"
      [] l.form = "arrowExpr" -> "(" \o l.params \o ") => " \o l.body

\* .replace(/^function\s*\([^)]*\)\s*{/, "").replace(/^\(?[^)]*\)?\s*=>\s*{/, "")
\* .replace(/}$/, "").trim(): the head up to the opening brace and the closing
\* brace are dropped; an arrow function with an expression body has no brace
\* after => and keeps its whole text
HandlerString(l) ==
    CASE l.form = "function" -> l.body
      [] l.form = "arrow" -> l.body
      [] l.form = "arrowExpr" -> ListenerToString(l)

OnKeys == {"onClick", "onChange", "onBeforeRequest", "onAfterRequest"}

\* key.startsWith("on"), over the keys an options object can have
StartsWithOn(key) == key \in OnKeys

\* key.toLowerCase().slice(2)
LowerSlice2(key) ==
    CASE key = "onClick" -> "click"
      [] key = "onChange" -> "change"
      [] key = "onBeforeRequest" -> "beforerequest"
      [] key = "onAfterRequest" -> "afterrequest"

convertToHXAttribute(key) ==
    CASE key = "onBeforeRequest" -> "hx-on::before-request"
      [] key = "onAfterRequest" -> "hx-on::after-request"
      [] OTHER -> "hx-on:" \o LowerSlice2(key)

\* Object.fromEntries(onHandlers.map(...).filter(entry => entry.length > 0))
HxOnHandlers(opts) ==
    LET onHandlers == {key \in DOMAIN opts : StartsWithOn(key)}
        kept == {key \in onHandlers : opts[key].form # "undefined"}
    IN [a \in {convertToHXAttribute(key) : key \in kept} |->
          HandlerString(opts[CHOOSE key \in kept : convertToHXAttribute(key) = a])]

----------------------------------------------------------------------------
(* JSON.stringify(opts.vals): an object's members in key order, undefined  *)
(* for undefined                                                           *)

ValKeys == <<"message", "name">>

RECURSIVE Members(_, _)
Members(v, i) ==
    IF i > Len(ValKeys) THEN <<>>
    ELSE (IF Has(v, ValKeys[i])
          THEN <<"\"" \o ValKeys[i] \o "\":\"" \o v[ValKeys[i]] \o "\"">>
          ELSE <<>>) \o Members(v, i + 1)

RECURSIVE Join(_)
Join(s) ==
    IF s = <<>> THEN ""
    ELSE IF Len(s) = 1 THEN s[1]
    ELSE s[1] \o "," \o Join(Tail(s))

JSONStringify(opts) ==
    IF Has(opts, "vals") THEN "{" \o Join(Members(opts.vals, 1)) \o "}" ELSE "undefined"

\* the object htmx() returns
HxAttributes(opts, path) ==
    Spread(
        Spread(Spread((HxAttr(MethodOf(opts)) :> path),
                      ("hx-target" :> OrElse(opts, "target", "body"))),
               Spread(("hx-swap" :> OrElse(opts, "swap", "innerHTML")),
                      ("hx-vals" :> JSONStringify(opts)))),
        HxOnHandlers(opts))

----------------------------------------------------------------------------
(* The options objects htmx() is called with *)

\* the choices for an optional field: not given, or one of S
Optional(S) == {{}} \cup {{x} : x \in S}

MethodChoices == {"GET", "POST", "delete"}
TargetChoices == {"this"}
SwapChoices == {"outerHTML"}
ValsChoices == {("message" :> "Hello"), ("message" :> "Hello" @@ "name" :> "Ann")}
RouteOptionsChoices == {("method" :> "PUT"), ("url" :> "/custom"), ("config" :> "c")}
OnChoices ==
    {Empty,
     ("onClick" :> [form |-> "function", params |-> "event", body |-> "alert(1)"]),
     ("onBeforeRequest" :> [form |-> "arrow", params |-> "event", body |-> "alert(2)"]),
     ("onAfterRequest" :> [form |-> "arrowExpr", params |-> "event", body |-> "alert(3)"]),
     ("onChange" :> [form |-> "undefined"])}

\* { handler, method, target, swap, vals, routeOptions, ...on }
MakeOpts(h, m, t, s, v, ro, on) ==
    Spread(("handler" :> h),
      Spread(Field("method", m),
        Spread(Field("target", t),
          Spread(Field("swap", s),
            Spread(Field("vals", v), Spread(Field("routeOptions", ro), on))))))

\* every combination of the options
AllOpts ==
    {MakeOpts(h, m, t, s, v, ro, on) :
        h \in Handlers, m \in Optional(MethodChoices), t \in Optional(TargetChoices),
        s \in Optional(SwapChoices), v \in Optional(ValsChoices),
        ro \in Optional(RouteOptionsChoices), on \in OnChoices}

\* the options of the calls of a sequence: every handler, method, vals and
\* routeOptions.method / url, with the presentation options all absent or all given
SeqOpts ==
    {MakeOpts(h, m, p.t, p.s, v, ro, p.on) :
        h \in Handlers \ {[src |-> "fnC", env |-> "c1"]}, m \in Optional({"GET"}),
        v \in Optional({("message" :> "Hello" @@ "name" :> "Ann")}),
        ro \in Optional({("method" :> "PUT"), ("url" :> "/custom")}),
        p \in {[t |-> {}, s |-> {}, on |-> Empty],
               [t |-> {"this"}, s |-> {"outerHTML"},
                on |-> ("onClick" :> [form |-> "function", params |-> "event",
                                      body |-> "alert(1)"])]}}

----------------------------------------------------------------------------
(* The Fastify instance *)

\* the handler of app.get(mount, ...): the entry point's page
EntryHandler == [entry |-> "App"]

\* what the route handler's closure reads of the htmx() call that made it:
\* opts.handler and opts.vals
Closure(opts) == [k \in (DOMAIN opts) \cap {"handler", "vals"} |-> opts[k]]

\* the argument of app.route: { method, url: path, ...(opts.routeOptions ?? {}), handler }
RouteConfig(opts) ==
    Spread(Spread(("method" :> MethodOf(opts) @@ "url" :> PathOf(opts.handler)),
                  OrElse(opts, "routeOptions", Empty)),
           ("handler" :> Closure(opts)))

\* app.route throws when the instance is already listening, and when a route
\* with the same method and url exists
RouteThrows(rc, srv, rts) ==
    \/ srv = "listening"
    \/ \E r \in rts : r.method = rc.method /\ r.url = rc.url

----------------------------------------------------------------------------
(* Init: the state createHTMXRouter(config) returns in, with an entry point *)

NoOutcome == [kind |-> "none"]

Init ==
    /\ routeRegistry = Empty
    /\ routes = {[method |-> "GET", url |-> mount, handler |-> EntryHandler]}
    /\ server = "idle"
    /\ startPromise = "none"
    /\ exitCode = -1
    /\ routeCalls = Empty
    /\ firstCall = Empty
    /\ issued = {}
    /\ calls = 0
    /\ out = NoOutcome

Running == exitCode = -1

----------------------------------------------------------------------------
(* htmx(opts) *)

\* the registry not consulted
MustRegister_Always(reg, path) == TRUE

\* !routeRegistry.has(path)
MustRegister(reg, path) == ~Has(reg, path)

htmx(opts) ==
    LET path == PathOf(opts.handler)
        rc == RouteConfig(opts)
        register == MustRegister(routeRegistry, path)
        throws == register /\ RouteThrows(rc, server, routes)
        attrs == HxAttributes(opts, path)
    IN /\ Running
       /\ calls < MaxCalls
       /\ calls' = calls + 1
       /\ routeRegistry' =
            IF register THEN Spread(routeRegistry, (path :> opts.handler))
            ELSE routeRegistry
       /\ routeCalls' =
            IF register THEN Spread(routeCalls, (path :> OrElse(routeCalls, path, 0) + 1))
            ELSE routeCalls
       /\ routes' = IF register /\ ~throws THEN routes \cup {rc} ELSE routes
       /\ firstCall' = IF Has(firstCall, path) THEN firstCall
                       ELSE Spread(firstCall,
                                   (path :> Spread(("handler" :> opts.handler),
                                                   Field("vals", IF Has(opts, "vals")
                                                                 THEN {opts.vals}
                                                                 ELSE {}))))
       /\ issued' = IF throws THEN issued
                    ELSE issued \cup {[handler |-> opts.handler,
                                        attr |-> HxAttr(MethodOf(opts)),
                                        path |-> attrs[HxAttr(MethodOf(opts))]]}
       /\ out' = IF throws THEN [kind |-> "htmx", opts |-> opts, threw |-> TRUE]
                 ELSE [kind |-> "htmx", opts |-> opts, threw |-> FALSE, attrs |-> attrs]
       /\ UNCHANGED <<server, startPromise, exitCode>>

Htmx == \E opts \in SeqOpts : htmx(opts)

\* a single htmx() call, with any combination of the options
HtmxOnce == calls = 0 /\ \E opts \in AllOpts : htmx(opts)

----------------------------------------------------------------------------
(* router.start() *)

\* start() up to its await of app.listen({ port, host })
Start ==
    /\ Running
    /\ server = "idle"
    /\ server' = "starting"
    /\ startPromise' = "pending"
    /\ out' = [kind |-> "start"]
    /\ UNCHANGED <<routeRegistry, routes, exitCode, routeCalls, firstCall,
                   issued, calls>>

\* start() without its catch block: the rejection of app.listen is the rejection
\* of start()
StartSettles_NoCatch(listened) ==
    IF listened
    THEN [server |-> "listening", promise |-> "fulfilled", exit |-> -1, logged |-> 0]
    ELSE [server |-> "failed", promise |-> "rejected", exit |-> -1, logged |-> 0]

\* what start() does once app.listen has settled: on success it logs and returns;
\* on failure its catch block logs the error and calls process.exit(1), which
\* does not return, so the promise of start() is never settled
StartSettles(listened) ==
    IF listened
    THEN [server |-> "listening", promise |-> "fulfilled", exit |-> -1, logged |-> 0]
    ELSE [server |-> "failed", promise |-> "pending", exit |-> 1, logged |-> 1]

Listen ==
    \E listened \in BOOLEAN :
        LET s == StartSettles(listened)
        IN /\ Running
           /\ server = "starting"
           /\ server' = s.server
           /\ startPromise' = s.promise
           /\ exitCode' = s.exit
           /\ out' = [kind |-> "listen", listened |-> listened, logged |-> s.logged]
           /\ UNCHANGED <<routeRegistry, routes, routeCalls, firstCall, issued, calls>>

----------------------------------------------------------------------------
(* Requests *)

\* where the handling of a request raises: nowhere, in building data, in the
\* user handler before it returns (throw) or after (rejected promise), or in
\* renderToStaticMarkup
Raises == {"none", "merge", "throw", "reject", "render"}

\* the spreads in the other order: the defaults win
MergeData_DefaultsLast(cl, req) ==
    Spread(OrElse(req, "body", Empty), OrElse(cl, "vals", Empty))

\* { ...(opts.vals ?? {}), ...(req.body ?? {}) }
MergeData(cl, req) == Spread(OrElse(cl, "vals", Empty), OrElse(req, "body", Empty))

\* the element opts.handler({ data, req, res }) returns
Jsx(fn, data) == [component |-> fn, props |-> data]

renderToStaticMarkup(jsx) == [markup |-> jsx]

\* the route handler with a catch block that covers the user handler only: an
\* exception of renderToStaticMarkup escapes
RouteHandler_RenderUncaught(cl, req, raise) ==
    LET data == MergeData(cl, req)
        ran == Field("data", IF raise = "merge" THEN {} ELSE {data})
    IN IF raise = "none"
       THEN Spread([status |-> 200, type |-> "text/html",
                    body |-> renderToStaticMarkup(Jsx(cl.handler, data)),
                    logged |-> 0, escaped |-> FALSE], ran)
       ELSE IF raise = "render"
       THEN Spread([status |-> 0, type |-> "unset", body |-> [text |-> ""],
                    logged |-> 0, escaped |-> TRUE], ran)
       ELSE Spread([status |-> 500, type |-> "unset", body |-> [text |-> "Server error"],
                    logged |-> 1, escaped |-> FALSE], ran)

\* the try block of the route handler and its catch block
RouteHandler(cl, req, raise) ==
    LET data == MergeData(cl, req)
        ran == Field("data", IF raise = "merge" THEN {} ELSE {data})
    IN IF raise = "none"
       THEN Spread([status |-> 200, type |-> "text/html",
                    body |-> renderToStaticMarkup(Jsx(cl.handler, data)),
                    logged |-> 0, escaped |-> FALSE], ran)
       ELSE Spread([status |-> 500, type |-> "unset", body |-> [text |-> "Server error"],
                    logged |-> 1, escaped |-> FALSE], ran)

\* a request to a generated endpoint, with a body in Bodies (or none), a query
\* in Queries, its handling raising at a point in Rs
request(Bodies, Queries, Rs) ==
    \E r \in routes, b \in Optional(Bodies), q \in Queries, raise \in Rs :
        LET req == Spread([method |-> r.method, url |-> r.url, query |-> q], Field("body", b))
            res == RouteHandler(r.handler, req, raise)
        IN /\ Running
           /\ server = "listening"
           /\ r.handler # EntryHandler
           /\ out' = [kind |-> "response", req |-> req, raise |-> raise, route |-> r,
                      res |-> res]
           /\ UNCHANGED <<routeRegistry, routes, server, startPromise, exitCode,
                          routeCalls, firstCall, issued, calls>>

BodyChoices == {Empty, ("message" :> "Bye"), ("name" :> "Bob" @@ "email" :> "b@x")}
QueryChoices == {Empty, ("message" :> "Yo")}

Request == request({("message" :> "Bye")}, {Empty}, {"none", "throw"})

RequestAny == request(BodyChoices, QueryChoices, Raises)

\* baseLayout(content)
baseLayout(content) == [document |-> [main |-> content, script |-> "htmx.org@2.0.4"]]

\* GET mount: the entry point's page
EntryRequest ==
    \E r \in routes :
        /\ Running
        /\ server = "listening"
        /\ r.handler = EntryHandler
        /\ out' = [kind |-> "page", route |-> r,
                   res |-> [status |-> 200, type |-> "text/html",
                            body |-> baseLayout(renderToStaticMarkup(EntryHandler))]]
        /\ UNCHANGED <<routeRegistry, routes, server, startPromise, exitCode,
                       routeCalls, firstCall, issued, calls>>

Next == Htmx \/ Start \/ Listen \/ Request \/ EntryRequest

Spec == Init /\ [][Next]_vars

\* one htmx() call of any shape, before or after the server listens
NextAttrs == HtmxOnce \/ Start \/ Listen

SpecAttrs == Init /\ [][NextAttrs]_vars

\* one htmx() call, then requests of any shape
NextReq == HtmxOnce \/ Start \/ Listen \/ RequestAny \/ EntryRequest

SpecReq == Init /\ [][NextReq]_vars

----------------------------------------------------------------------------
(* Properties *)

\* the routes htmx() registered (all but the entry point's)
HtmxRoutes == {r \in routes : r.handler # EntryHandler}

Returned == out.kind = "htmx" /\ ~out.threw

Responded == out.kind = "response"

\* C1: two htmx() calls that pass the identical handler function return the same
\* path, prefix + "/" + the hash of the handler's source text, and app.route is
\* called exactly once for a path, however often the handler is passed.
C1_SamePathRegisteredOnce ==
    /\ \A i \in issued : i.path = "/api/" \o Sha1Hex10(i.handler.src)
    /\ \A i, j \in issued : i.handler = j.handler => i.path = j.path
    /\ \A p \in DOMAIN firstCall : Has(routeCalls, p) /\ routeCalls[p] = 1
    /\ \A p \in DOMAIN routeCalls :
          Cardinality({r \in HtmxRoutes : PathOf(r.handler.handler) = p}) <= 1

\* the second of two calls that passed the identical handler has returned
C1_Witness ==
    /\ calls = 2
    /\ Returned
    /\ DOMAIN routeCalls = {PathOf(out.opts.handler)}
    /\ routeRegistry[PathOf(out.opts.handler)] = out.opts.handler
    /\ routeCalls[PathOf(out.opts.handler)] = 1

\* the name of the trigger attribute for a method as given in the options
C2_Trigger(m) ==
    CASE m \in {"GET", "get"} -> "hx-get"
      [] m \in {"POST", "post"} -> "hx-post"
      [] m \in {"PUT", "put"} -> "hx-put"
      [] m \in {"DELETE", "delete"} -> "hx-delete"
      [] m \in {"PATCH", "patch"} -> "hx-patch"

\* C2: every attribute set htmx(opts) returns has the trigger attribute
\* "hx-<method in lower case>" (POST by default) with the generated path as its
\* value, "hx-target" = opts.target or "body", and "hx-swap" = opts.swap or
\* "innerHTML", whatever the method, target, swap, vals and on* handlers.
C2_TriggerTargetSwap ==
    Returned =>
        LET o == out.opts
            a == out.attrs
            trigger == C2_Trigger(IF Has(o, "method") THEN o.method ELSE "POST")
        IN /\ Has(a, trigger)
           /\ a[trigger] = "/api/" \o Sha1Hex10(o.handler.src)
           /\ Has(a, "hx-target")
           /\ a["hx-target"] = (IF Has(o, "target") THEN o.target ELSE "body")
           /\ Has(a, "hx-swap")
           /\ a["hx-swap"] = (IF Has(o, "swap") THEN o.swap ELSE "innerHTML")

\* a call with a lower-case method, an on* handler and neither target nor swap
C2_Witness ==
    /\ Returned
    /\ Has(out.opts, "method") /\ out.opts.method = "delete"
    /\ Has(out.opts, "onBeforeRequest")
    /\ ~Has(out.opts, "target") /\ ~Has(out.opts, "swap")
    /\ Has(out.attrs, "hx-on::before-request")

\* C3: the data passed to the handler is the merge of the default vals with the
\* values supplied in the request: the supplied value for every supplied key, the
\* default for every key only the defaults have, and no other key.
C3_SuppliedOverDefaults ==
    (Responded /\ Has(out.res, "data")) =>
        LET defaults == IF Has(out.route.handler, "vals") THEN out.route.handler.vals
                        ELSE Empty
            supplied == IF Has(out.req, "body") THEN out.req.body ELSE Empty
            data == out.res.data
        IN /\ DOMAIN data = (DOMAIN defaults) \cup (DOMAIN supplied)
           /\ \A k \in DOMAIN supplied : data[k] = supplied[k]
           /\ \A k \in (DOMAIN defaults) \ (DOMAIN supplied) : data[k] = defaults[k]

\* a request that supplies a key the defaults have too, and leaves another to them
C3_Witness ==
    /\ Responded /\ Has(out.res, "data")
    /\ Has(out.route.handler, "vals") /\ Has(out.req, "body")
    /\ out.route.handler.vals = ("message" :> "Hello" @@ "name" :> "Ann")
    /\ out.req.body = ("message" :> "Bye")
    /\ out.res.data = ("message" :> "Bye" @@ "name" :> "Ann")

\* C4: an exception raised while a generated endpoint handles a request (in the
\* merge, in the handler, thrown or as a rejected promise, or in rendering) is
\* logged and answered with status 500 and body "Server error", and never escapes
\* the route handler; a request handled without exception gets the rendered markup
\* with Content-Type text/html.
C4_ExceptionsBecome500 ==
    Responded =>
        /\ ~out.res.escaped
        /\ out.raise # "none" =>
              /\ out.res.status = 500
              /\ out.res.body = [text |-> "Server error"]
              /\ out.res.logged = 1
        /\ out.raise = "none" =>
              /\ out.res.type = "text/html"
              /\ out.res.body =
                    [markup |-> [component |-> out.route.handler.handler,
                                 props |-> out.res.data]]
              /\ out.res.logged = 0

\* rendering the handler's result raised, and the request was answered
C4_Witness ==
    /\ Responded
    /\ out.raise = "render"
    /\ out.res.status = 500

\* C5: a value sent as a query parameter appears in the handler's data and
\* overrides the default for its key.
C5_QueryValuesInData ==
    (Responded /\ Has(out.res, "data")) =>
        \A k \in DOMAIN out.req.query :
            Has(out.res.data, k) /\ out.res.data[k] = out.req.query[k]

\* C6: once start() has been called and the server is listening, no step adds,
\* removes or changes an entry of the registry.
C6_RegistryFrozenWhenListening ==
    [][server = "listening" => routeRegistry' = routeRegistry]_vars

\* C7: if app.listen rejects, start() logs the error and ends the process with
\* exit code 1; if it succeeds start() does not end the process; the promise of
\* start() rejects in neither case.
C7_StartFailureExits ==
    /\ startPromise # "rejected"
    /\ server = "failed" => exitCode = 1
    /\ (out.kind = "listen" /\ ~out.listened) => (exitCode = 1 /\ out.logged = 1)
    /\ server = "listening" => (exitCode = -1 /\ startPromise = "fulfilled")

\* app.listen has rejected
C7_Witness ==
    /\ out.kind = "listen"
    /\ ~out.listened
    /\ server = "failed"

\* C8: a path is a key of the registry if and only if a route for that path,
\* running the handler stored under that key, is registered with the server.
C8_RegistryMatchesServer ==
    /\ \A p \in DOMAIN routeRegistry :
          \E r \in HtmxRoutes : r.url = p /\ r.handler.handler = routeRegistry[p]
    /\ \A r \in HtmxRoutes :
          Has(routeRegistry, r.url) /\ r.handler.handler = routeRegistry[r.url]

\* C9: every attribute set returned names an endpoint that exists: for its trigger
\* attribute "hx-<m>" with value P, a route with method m and url P is registered.
C9_TriggerNamesARoute ==
    \A i \in issued :
        \E r \in routes : i.attr = C2_Trigger(r.method) /\ i.path = r.url

\* C10: the endpoint at a generated path is that of the first htmx() call that
\* produced the path: it runs that call's handler and merges that call's vals,
\* whatever later calls with the same source text pass; a later call's attribute
\* set carries its own target, swap and hx-vals.
C10_FirstCallFixesEndpoint ==
    /\ \A r \in HtmxRoutes :
          Has(firstCall, r.url) =>
              /\ r.handler.handler = firstCall[r.url].handler
              /\ Has(r.handler, "vals") = Has(firstCall[r.url], "vals")
              /\ Has(r.handler, "vals") => r.handler.vals = firstCall[r.url].vals
    /\ (Responded /\ out.raise = "none" /\ Has(firstCall, out.req.url)) =>
          /\ out.res.body.markup.component = firstCall[out.req.url].handler
          /\ \A k \in DOMAIN out.res.data :
                \/ (Has(out.req, "body") /\ Has(out.req.body, k))
                \/ (/\ Has(firstCall[out.req.url], "vals")
                    /\ Has(firstCall[out.req.url].vals, k)
                    /\ out.res.data[k] = firstCall[out.req.url].vals[k])
    /\ Returned =>
          /\ out.attrs["hx-target"] = (IF Has(out.opts, "target") THEN out.opts.target
                                       ELSE "body")
          /\ out.attrs["hx-swap"] = (IF Has(out.opts, "swap") THEN out.opts.swap
                                     ELSE "innerHTML")
          /\ Has(out.opts, "vals") = (out.attrs["hx-vals"] # "undefined")
          /\ (Has(out.opts, "vals") /\ Has(out.opts.vals, "name")) =>
                out.attrs["hx-vals"] = "{\"message\":\"Hello\",\"name\":\"Ann\"}"

\* a request to a path that a later call with the same source text, another
\* closure and no vals was given, answered by the first call's handler
C10_Witness ==
    /\ Responded /\ out.raise = "none"
    /\ Has(firstCall, out.req.url)
    /\ Has(firstCall[out.req.url], "vals")
    /\ \E i \in issued : /\ i.path = out.req.url
                         /\ i.handler # firstCall[out.req.url].handler
                         /\ i.handler.src = firstCall[out.req.url].handler.src
    /\ out.res.body.markup.component = firstCall[out.req.url].handler

====
